---------------------------- MODULE Spec2Model ----------------------------
(***************************************************************************)
(* Model of src/app.py: one Flask application object with one route, "/",  *)
(* whose view function renders an inline template, and a main guard that   *)
(* runs the development server on 0.0.0.0:5000 with debug=True.            *)
(*                                                                         *)
(* Text is modelled as a sequence of tokens.  The characters that mean     *)
(* something to the template engine ("{", "}", "%", "#" and the newline)   *)
(* are always tokens of their own, so that two of them are adjacent in the *)
(* text exactly when their tokens are adjacent in the sequence.  The two   *)
(* code points of the heading's emoji are the tokens "U+1F3D7", "U+FE0F".  *)
(***************************************************************************)
EXTENDS Naturals, Sequences, FiniteSets

VARIABLES
    isMain,         \* __name__ == '__main__' : the module is the main program
    proc,           \* "loaded" | "serving" | "exited"
    portFree,       \* environment: no other process holds 0.0.0.0:5000
    startupFault,   \* the exception raised by a failed bind has propagated
    listener,       \* the server app.run started: host, port, debug
    url_map,        \* app.url_map : the registered rules
    view_functions, \* app.view_functions : endpoint -> view function
    conns           \* the requests accepted so far, each with its position

vars == <<isMain, proc, portFree, startupFault, listener, url_map,
          view_functions, conns>>

\* The number of requests accepted in one run of the model.
MaxRequests == 3

-----------------------------------------------------------------------------
(* The template literal of index(), lines 7-28 of src/app.py.               *)

LF == "\n"

\* Mutant of Document: the heading taken from a template variable.
Document_templated ==
    <<LF,
      "    <html>", LF,
      "        ", "<title>", "Microservices Architecture", "</title>", LF,
      "            ", "<h1>", "{", "{", " title ", "}", "}", "</h1>", LF,
      "            <p>", "Docker containers, API Gateway, Service Discovery",
          "</p>", LF,
      "    </html>", LF,
      "    ">>

Document ==
    <<LF,
      "    <!DOCTYPE html>", LF,
      "    <html>", LF,
      "    <head>", LF,
      "        ", "<title>", "Microservices Architecture", "</title>", LF,
      "        <style>", LF,
      "            body ", "{",
          " font-family: Arial; background: linear-gradient(135deg, ",
          "#", "667eea 0", "%", ", ", "#", "764ba2 100", "%",
          "); min-height: 100vh; display: flex; align-items: center; justify-content: center; ",
          "}", LF,
      "            .container ", "{",
          " background: white; padding: 50px; border-radius: 20px; text-align: center; box-shadow: 0 20px 40px rgba(0,0,0,0.1); ",
          "}", LF,
      "            h1 ", "{", " color: ", "#", "333; margin-bottom: 20px; ", "}", LF,
      "            p ", "{", " color: ", "#",
          "666; font-size: 18px; margin-bottom: 15px; ", "}", LF,
      "        </style>", LF,
      "    </head>", LF,
      "    <body>", LF,
      "        <div class=\"container\">", LF,
      "            ", "<h1>", "U+1F3D7", "U+FE0F", " ",
          "Microservices Architecture", "</h1>", LF,
      "            <p>", "Professional microservices architecture implementation",
          "</p>", LF,
      "            <p>", "Scalable, distributed system design", "</p>", LF,
      "            <p>", "Docker containers, API Gateway, Service Discovery",
          "</p>", LF,
      "        </div>", LF,
      "    </body>", LF,
      "    </html>", LF,
      "    ">>

-----------------------------------------------------------------------------
(* render_template_string(source), called with no context arguments: the   *)
(* Jinja environment of a Flask app with its default settings.  One         *)
(* trailing newline of the source is dropped (keep_trailing_newline is      *)
(* off); "{{ ... }}" is replaced by the value of the expression, which for  *)
(* a name that is not in the context is the empty text; "{# ... #}" and     *)
(* "{% ... %}" produce no text of their own; a tag that is never closed is  *)
(* a TemplateSyntaxError.                                                   *)

TagClose(open) == IF open = "{" THEN "}" ELSE open

\* The index of the "}" that ends the tag opened with "{" + open, searching
\* from position i; 0 when the tag is never closed.
RECURSIVE FindClose(_, _, _)
FindClose(toks, i, open) ==
    IF i + 1 > Len(toks) THEN 0
    ELSE IF toks[i] = TagClose(open) /\ toks[i + 1] = "}" THEN i + 1
    ELSE FindClose(toks, i + 1, open)

RECURSIVE RenderFrom(_, _, _)
RenderFrom(toks, i, acc) ==
    IF i > Len(toks) THEN [ok |-> TRUE, out |-> acc]
    ELSE IF toks[i] = "{" /\ i < Len(toks) /\ toks[i + 1] \in {"{", "%", "#"}
    THEN LET j == FindClose(toks, i + 2, toks[i + 1])
         IN  IF j = 0 THEN [ok |-> FALSE, out |-> <<>>]
             ELSE RenderFrom(toks, j + 1, acc)
    ELSE RenderFrom(toks, i + 1, Append(acc, toks[i]))

StripTrailingNewline(toks) ==
    IF Len(toks) > 0 /\ toks[Len(toks)] = LF
    THEN SubSeq(toks, 1, Len(toks) - 1)
    ELSE toks

render_template_string(source) ==
    RenderFrom(StripTrailingNewline(source), 1, <<>>)

-----------------------------------------------------------------------------
(* Requests and responses.  A query string and the request headers are     *)
(* sets of <<key, value>> pairs; data is the request body.                  *)

Methods == {"GET", "HEAD", "OPTIONS", "POST", "PUT", "DELETE", "PATCH"}

Req(m, p, q, h, d) ==
    [method |-> m, path |-> p, query |-> q, headers |-> h, data |-> d]

NoQuery == {}

DebuggerResource(f) ==
    {<<"__debugger__", "yes">>, <<"cmd", "resource">>, <<"f", f>>}

\* The requests the model issues: every method on "/", GET on two other
\* paths, "/" with a query string, a header or a body that the view
\* does not read, and requests carrying the debugger's query arguments.
Requests ==
    {Req(m, "/", NoQuery, {}, "") : m \in Methods}
    \cup {Req("GET", p, NoQuery, {}, "") : p \in {"/missing", "/console"}}
    \cup {Req("GET", "/", {<<"x", "1">>}, {}, ""),
          Req("GET", "/", NoQuery, {<<"X-Custom", "1">>}, "payload")}
    \cup {Req("GET", "/", DebuggerResource(f), {}, "") :
            f \in {"style.css", "nope"}}
    \cup {Req("POST", "/", DebuggerResource("style.css"), {}, "")}

\* request.args.get(key): the value of the key, "" when it is absent.
Arg(q, key) ==
    IF \E p \in q : p[1] = key
    THEN (CHOOSE p \in q : p[1] = key)[2]
    ELSE ""

Response(st, mt, al, b) ==
    [status |-> st, mimetype |-> mt, allow |-> al, body |-> b]

NoResponse == Response(0, "", {}, <<>>)

\* werkzeug.exceptions.NotFound and MethodNotAllowed as responses.
NotFound ==
    Response(404, "text/html", {},
        <<"<!doctype html>", LF, "<html lang=en>", LF,
          "<title>", "404 Not Found", "</title>", LF,
          "<h1>", "Not Found", "</h1>", LF,
          "<p>", "The requested URL was not found on the server. If you entered the URL manually please check your spelling and try again.",
          "</p>", LF>>)

MethodNotAllowed(valid_methods) ==
    Response(405, "text/html", valid_methods,
        <<"<!doctype html>", LF, "<html lang=en>", LF,
          "<title>", "405 Method Not Allowed", "</title>", LF,
          "<h1>", "Method Not Allowed", "</h1>", LF,
          "<p>", "The method is not allowed for the requested URL.",
          "</p>", LF>>)

InternalServerError ==
    Response(500, "text/html", {},
        <<"<!doctype html>", LF, "<html lang=en>", LF,
          "<title>", "500 Internal Server Error", "</title>", LF,
          "<h1>", "Internal Server Error", "</h1>", LF>>)

-----------------------------------------------------------------------------
(* The application: app = Flask(__name__), @app.route('/'), index().        *)

\* Mutant of RuleMethods: HEAD is not added to a rule that handles GET.
RuleMethods_no_head(given) == given \cup {"OPTIONS"}

\* The methods of a rule registered with the given methods: OPTIONS is
\* added by Flask (provide_automatic_options), HEAD by the rule when it
\* handles GET.
RuleMethods(given) ==
    given \cup {"OPTIONS"} \cup (IF "GET" \in given THEN {"HEAD"} ELSE {})

\* @app.route(rule) with no methods argument: the rule handles GET.
route(rule, endpoint) ==
    [rule |-> rule, endpoint |-> endpoint, methods |-> RuleMethods({"GET"}),
     automatic_options |-> TRUE]

\* The value of render_template_string('...') in index().
rendered == render_template_string(Document)

\* Mutant of index: the page says whether a request was answered before.
index_counting ==
    LET rv == rendered
        seen == \E i \in 1..Len(conns) : conns[i].pc = "sent"
    IN  Response(200, "text/html", {},
                 IF seen THEN rv.out \o <<"<!-- visited before -->">>
                 ELSE rv.out)

\* index(): the text the view returns, made into a response by Flask
\* (a str becomes a 200 response of mimetype text/html).  The view has no
\* parameters and reads neither the request nor the application.
index ==
    LET rv == rendered
    IN  IF rv.ok THEN Response(200, "text/html", {}, rv.out)
        ELSE InternalServerError

\* Mutant of get_app_iter: the body is sent in answer to HEAD too.
get_app_iter_keeps_body(req, resp) == resp

\* Response.get_app_iter: the body is not sent in answer to HEAD.
get_app_iter(req, resp) ==
    IF req.method = "HEAD" THEN [resp EXCEPT !.body = <<>>] ELSE resp

\* app.wsgi_app: match the path against the url map, then the method
\* against the rule's methods, then answer OPTIONS automatically or call
\* the view function of the rule's endpoint.
FlaskApp(map, req) ==
    LET matched == {r \in map : r.rule = req.path}
        usable  == {r \in matched : req.method \in r.methods}
        resp ==
            IF matched = {} THEN NotFound
            ELSE IF usable = {}
            THEN MethodNotAllowed(UNION {r.methods : r \in matched})
            ELSE LET r == CHOOSE u \in usable : TRUE
                 IN  IF req.method = "OPTIONS" /\ r.automatic_options
                     THEN Response(200, "text/html", r.methods, <<>>)
                     ELSE IF r.endpoint \in DOMAIN view_functions
                               /\ view_functions[r.endpoint] = "index"
                     THEN index
                     ELSE InternalServerError
    IN  get_app_iter(req, resp)

-----------------------------------------------------------------------------
(* app.run(debug=True, ...): the development server wraps the application   *)
(* in the debugger middleware, which answers some requests itself, before   *)
(* the application sees them: a request whose query has __debugger__=yes    *)
(* and cmd=resource is answered with the named file of the debugger (404    *)
(* when there is none), and the path /console with the console page.        *)
(* Requests are taken to come from the local host, as in                    *)
(* http://localhost:5000/, which the debugger trusts.                       *)

DebuggerFiles == {"style.css", "debugger.js", "console.png"}

ConsolePath == "/console"

ConsolePage ==
    Response(200, "text/html", {},
        <<"<!doctype html>", LF, "<title>", "Console // Werkzeug Debugger",
          "</title>", LF>>)

\* mimetypes.guess_type(filename), for the files above.
GuessType(f) ==
    IF f = "style.css" THEN "text/css"
    ELSE IF f = "debugger.js" THEN "text/javascript"
    ELSE IF f = "console.png" THEN "image/png"
    ELSE "application/octet-stream"

\* The content of the file is the two tokens <<"shared/", f>>.
get_resource(f) ==
    IF f \in DebuggerFiles
    THEN Response(200, GuessType(f), {}, <<"shared/", f>>)
    ELSE NotFound

DebuggerAnswers(req) ==
    \/ Arg(req.query, "__debugger__") = "yes"
         /\ Arg(req.query, "cmd") = "resource" /\ Arg(req.query, "f") # ""
    \/ Arg(req.query, "__debugger__") # "yes" /\ req.path = ConsolePath

DebuggedApplication(map, req) ==
    LET resp ==
            IF Arg(req.query, "__debugger__") = "yes"
            THEN IF Arg(req.query, "cmd") = "resource"
                      /\ Arg(req.query, "f") # ""
                 THEN get_resource(Arg(req.query, "f"))
                 ELSE FlaskApp(map, req)
            ELSE IF req.path = ConsolePath THEN ConsolePage
            ELSE FlaskApp(map, req)
    IN  get_app_iter(req, resp)

NoListener == [host |-> "", port |-> 0, debug |-> FALSE]

Port == 5000

\* What the process answers to a request: through the debugger when the
\* server was started with debug on, by the application otherwise.
Serve(map, lsn, req) ==
    IF lsn.debug THEN DebuggedApplication(map, req) ELSE FlaskApp(map, req)

-----------------------------------------------------------------------------
(* The state machine.  Init is the state when the module body has run up   *)
(* to the main guard: the application exists and its one route is           *)
(* registered.  The module is either the main program or imported by a      *)
(* WSGI host or a test client, which calls the application itself.          *)

Init ==
    /\ isMain \in BOOLEAN
    /\ portFree = TRUE
    /\ proc = "loaded"
    /\ startupFault = FALSE
    /\ listener = NoListener
    /\ url_map = {route("/", "index")}
    /\ view_functions = [index |-> "index"]
    /\ conns = <<>>

\* Mutant of Run: a failed bind is caught and the bind is tried again.
Run_retry ==
    /\ isMain
    /\ proc = "loaded"
    /\ IF portFree
       THEN /\ listener' = [host |-> "0.0.0.0", port |-> Port, debug |-> TRUE]
            /\ proc' = "serving"
            /\ portFree' = FALSE
            /\ UNCHANGED startupFault
       ELSE /\ startupFault' = TRUE
            /\ UNCHANGED <<listener, proc, portFree>>
    /\ UNCHANGED <<isMain, url_map, view_functions, conns>>

\* if __name__ == '__main__': app.run(debug=True, host='0.0.0.0', port=5000).
\* The bind either succeeds, and the server serves until the process is
\* stopped, or raises, and nothing catches the exception.
Run ==
    /\ isMain
    /\ proc = "loaded"
    /\ IF portFree
       THEN /\ listener' = [host |-> "0.0.0.0", port |-> Port, debug |-> TRUE]
            /\ proc' = "serving"
            /\ portFree' = FALSE
            /\ UNCHANGED startupFault
       ELSE /\ startupFault' = TRUE
            /\ proc' = "exited"
            /\ UNCHANGED <<listener, portFree>>
    /\ UNCHANGED <<isMain, url_map, view_functions, conns>>

\* Another process binds or releases the port before app.run is reached
\* (the port matters to no other step).
PortChange ==
    /\ isMain
    /\ proc = "loaded"
    /\ portFree' = ~portFree
    /\ UNCHANGED <<isMain, proc, startupFault, listener, url_map,
                   view_functions, conns>>

\* Requests reach the application while the server serves, or, when the
\* module was imported, whenever its host calls it.
Listening == (isMain /\ proc = "serving") \/ (~isMain /\ proc = "loaded")

\* A request arrives and is given to a handler of its own.
Accept(req) ==
    /\ Listening
    /\ Len(conns) < MaxRequests
    /\ conns' = Append(conns, [req |-> req, pc |-> "accepted",
                               resp |-> NoResponse])
    /\ UNCHANGED <<isMain, proc, portFree, startupFault, listener, url_map,
                   view_functions>>

\* Mutant of Handle: the server handles one request at a time, in the order
\* of arrival (threaded=False).
Handle_serial(i) ==
    /\ i \in 1..Len(conns)
    /\ conns[i].pc = "accepted"
    /\ \A j \in 1..(i - 1) : conns[j].pc = "sent"
    /\ conns' = [conns EXCEPT ![i].pc = "sent",
                              ![i].resp = Serve(url_map, listener, conns[i].req)]
    /\ UNCHANGED <<isMain, proc, portFree, startupFault, listener, url_map,
                   view_functions>>

\* Mutant of Handle: a request for an unknown path registers the path as a
\* rule of the index view.
Handle_registers(i) ==
    /\ i \in 1..Len(conns)
    /\ conns[i].pc = "accepted"
    /\ conns' = [conns EXCEPT ![i].pc = "sent",
                              ![i].resp = Serve(url_map, listener, conns[i].req)]
    /\ url_map' = url_map \cup {route(conns[i].req.path, "index")}
    /\ UNCHANGED <<isMain, proc, portFree, startupFault, listener,
                   view_functions>>

\* The handler of request i runs the WSGI application on it and writes the
\* response to the request's socket.  The server is threaded (app.run leaves
\* threaded at its default): a handler waits for no other request.
Handle(i) ==
    /\ i \in 1..Len(conns)
    /\ conns[i].pc = "accepted"
    /\ conns' = [conns EXCEPT ![i].pc = "sent",
                              ![i].resp = Serve(url_map, listener, conns[i].req)]
    /\ UNCHANGED <<isMain, proc, portFree, startupFault, listener, url_map,
                   view_functions>>

Next ==
    \/ Run
    \/ PortChange
    \/ \E req \in Requests : Accept(req)
    \/ \E i \in 1..MaxRequests : Handle(i)

Spec == Init /\ [][Next]_vars

-----------------------------------------------------------------------------
(* Vocabulary of the properties.                                            *)

\* The requests that have been answered.
Answered == {i \in 1..Len(conns) : conns[i].pc = "sent"}

\* The request line "GET /": method GET, request target "/", that is path
\* "/" and no query string.  Its headers and body are any.
GetSlash(req) == req.method = "GET" /\ req.path = "/" /\ req.query = NoQuery

\* needle occurs in hay as a run of adjacent tokens.
Contains(hay, needle) ==
    \E k \in 0..(Len(hay) - Len(needle)) :
        SubSeq(hay, k + 1, k + Len(needle)) = needle

Heading ==
    <<"<h1>", "U+1F3D7", "U+FE0F", " ", "Microservices Architecture", "</h1>">>

-----------------------------------------------------------------------------
(* C1.  Every answered request with method GET and path "/" has status     *)
(* 200, Content-Type text/html and the fixed document as its body.         *)
(* Violated: started as the main program the server runs with debug on,    *)
(* and the debugger answers GET /?__debugger__=yes&cmd=resource&f=... with *)
(* one of its own files, or with 404 when there is no such file.           *)
GetRootIsTheDocument ==
    \A i \in Answered :
        conns[i].req.method = "GET" /\ conns[i].req.path = "/"
        => /\ conns[i].resp.status = 200
           /\ conns[i].resp.mimetype = "text/html"
           /\ conns[i].resp.body = Document

(* C2.  Every answered request whose path is not "/" has the framework's   *)
(* standard 404 response: status 404 and the standard not-found body (no   *)
(* body in answer to HEAD).  Violated: with debug on, /console is answered *)
(* 200 with the debugger's console page.                                   *)
OtherPathsAreNotFound ==
    \A i \in Answered :
        conns[i].req.path # "/"
        => conns[i].resp = get_app_iter(conns[i].req, NotFound)

(* C3.  No answered request to "/" with a method other than GET has both   *)
(* status 200 and a body that contains the fixed document.                 *)
NonGetRootNeverCarriesThePage ==
    \A i \in Answered :
        conns[i].req.path = "/" /\ conns[i].req.method # "GET"
        => ~(conns[i].resp.status = 200
             /\ Contains(conns[i].resp.body, Document))

\* C3's case: HEAD / has been answered, with status 200 and no body, and so
\* has a POST /.
HeadRootAnswered ==
    \E i, j \in Answered :
        /\ conns[i].req = Req("HEAD", "/", NoQuery, {}, "")
        /\ conns[i].resp.status = 200
        /\ conns[i].resp.body = <<>>
        /\ conns[j].req.method = "POST" /\ conns[j].req.path = "/"

(* C4, as stated.  Every answered request to "/" with a method other than  *)
(* GET has status 405 or 404.  Violated by HEAD / and OPTIONS /, which the *)
(* route allows and which are answered 200.                                *)
NonGetRootIs405Or404 ==
    \A i \in Answered :
        conns[i].req.path = "/" /\ conns[i].req.method # "GET"
        => conns[i].resp.status \in {404, 405}

(* C4, amended.  Every request to "/" with a method other than GET that    *)
(* the application's router answers has status 405 and the Allow header    *)
(* GET, HEAD, OPTIONS, unless its method is HEAD or OPTIONS: these the     *)
(* route allows, and they are answered 200 with an empty body.             *)
NonGetRootIs405ButHeadOptions ==
    \A i \in Answered :
        /\ conns[i].req.path = "/"
        /\ conns[i].req.method # "GET"
        /\ ~(listener.debug /\ DebuggerAnswers(conns[i].req))
        => IF conns[i].req.method \in {"HEAD", "OPTIONS"}
           THEN conns[i].resp.status = 200 /\ conns[i].resp.body = <<>>
           ELSE /\ conns[i].resp.status = 405
                /\ conns[i].resp.allow = {"GET", "HEAD", "OPTIONS"}

\* C4's case: OPTIONS / answered 200 and DELETE / answered 405.
OptionsAndDeleteRootAnswered ==
    \E i, j \in Answered :
        /\ conns[i].req = Req("OPTIONS", "/", NoQuery, {}, "")
        /\ conns[i].resp.status = 200
        /\ conns[j].req = Req("DELETE", "/", NoQuery, {}, "")
        /\ conns[j].resp.status = 405

(* C5.  Any two answered GET / have the same body, whatever was requested  *)
(* and answered before, between and after them.                            *)
GetSlashBodiesIdentical ==
    \A i, j \in Answered :
        GetSlash(conns[i].req) /\ GetSlash(conns[j].req)
        => conns[i].resp.body = conns[j].resp.body

\* C5's case: GET /, then a request of another method or path, then GET /
\* again, all three answered, the first before the third was.
GetOtherGetAnswered ==
    /\ Len(conns) = 3
    /\ Answered = {1, 2, 3}
    /\ GetSlash(conns[1].req)
    /\ ~GetSlash(conns[2].req)
    /\ conns[2].req.method # "GET"
    /\ GetSlash(conns[3].req)
    /\ conns[3].resp.body # <<>>

(* C6.  Whatever the interleaving, every answered request has the response *)
(* the same server gives it when it is the only request; all answered      *)
(* GET / have the same response; and a request that has been accepted can  *)
(* be handled at once, whatever position the other requests are in.        *)
ConcurrentRequestsIndependent ==
    /\ \A i \in Answered :
          conns[i].resp = Serve({route("/", "index")}, listener, conns[i].req)
    /\ \A i, j \in Answered :
          GetSlash(conns[i].req) /\ GetSlash(conns[j].req)
          => conns[i].resp = conns[j].resp
    /\ \A i \in 1..Len(conns) :
          conns[i].pc = "accepted" => ENABLED Handle(i)

\* C6's case: three requests in flight together, two of them GET /; the
\* last to arrive was answered first and the first is still waiting for
\* its handler to run.
OvertakenInFlight ==
    /\ Len(conns) = 3
    /\ conns[1].pc = "accepted" /\ GetSlash(conns[1].req)
    /\ conns[2].pc = "accepted"
    /\ conns[3].pc = "sent" /\ GetSlash(conns[3].req)

(* C7.  A step in which a request arrives or is answered changes neither   *)
(* the registered rules, nor the view functions, nor the server and its    *)
(* process: the rules and views are those registered at import.            *)
HandlingHasNoSideEffects ==
    /\ [](/\ url_map = {route("/", "index")}
          /\ view_functions = [index |-> "index"])
    /\ [][conns' # conns
          => /\ url_map' = url_map
             /\ view_functions' = view_functions
             /\ listener' = listener
             /\ proc' = proc
             /\ startupFault' = startupFault]_vars

\* C7's case: a matched and an unmatched request have both been answered.
MatchedAndUnmatchedAnswered ==
    \E i, j \in Answered :
        /\ conns[i].req.path = "/" /\ conns[i].resp.status = 200
        /\ conns[j].req.path = "/missing" /\ conns[j].resp.status = 404

(* C8.  The body of every answered GET / is the template literal, token    *)
(* for token (rendering substitutes and removes nothing), and so contains   *)
(* "Microservices Architecture", "Docker containers, API Gateway, Service  *)
(* Discovery" and the heading element with its emoji.                      *)
GetSlashBodyIsTheLiteral ==
    \A i \in Answered :
        GetSlash(conns[i].req)
        => /\ conns[i].resp.status = 200
           /\ conns[i].resp.body = Document
           /\ Contains(conns[i].resp.body, <<"Microservices Architecture">>)
           /\ Contains(conns[i].resp.body,
                <<"Docker containers, API Gateway, Service Discovery">>)
           /\ Contains(conns[i].resp.body, Heading)

\* C8's case: the server runs on port 5000 and has answered GET /.
GetSlashAnsweredOnPort5000 ==
    /\ proc = "serving"
    /\ listener.port = Port
    /\ \E i \in Answered :
          GetSlash(conns[i].req) /\ Len(conns[i].resp.body) > 0

(* C9.  A serving process is the main program, and its one server listens  *)
(* on 0.0.0.0:5000 with debug on; once the bind has failed the process has *)
(* exited, and so is never serving; an imported module stays loaded with   *)
(* its route registered and no server.                                     *)
StartupLifecycle ==
    /\ proc = "serving"
       => /\ isMain
          /\ listener = [host |-> "0.0.0.0", port |-> Port, debug |-> TRUE]
    /\ proc # "serving" => listener = NoListener
    /\ startupFault => proc = "exited"
    /\ ~isMain => /\ proc = "loaded"
                  /\ \E r \in url_map : r.rule = "/" /\ "GET" \in r.methods

\* C9's case: the port was taken when app.run tried to bind.
BindFailed == isMain /\ startupFault

(* C10.  Two answered requests with the same method and path have the same *)
(* status and body, whatever their query strings, headers and bodies.      *)
(* Violated: with debug on, GET / and GET /?__debugger__=yes&cmd=resource  *)
(* &f=style.css are answered with the page and with the debugger's file.   *)
ResponseDependsOnMethodAndPathOnly ==
    \A i, j \in Answered :
        /\ conns[i].req.method = conns[j].req.method
        /\ conns[i].req.path = conns[j].req.path
        => /\ conns[i].resp.status = conns[j].resp.status
           /\ conns[i].resp.body = conns[j].resp.body

=============================================================================
